---- MODULE Spec2Model ----
(***************************************************************************)
(* The blackjack simulation engine (src/src/simulator.py) with its five    *)
(* betting strategies (src/src/strategies.py).                             *)
(*                                                                         *)
(* Representation.                                                         *)
(*  - sim is the BlackjackSimulator object, a record with the object's     *)
(*    fields.  Python lists are sequences (list index i is sequence index  *)
(*    i + 1).                                                              *)
(*  - Money (base_bet, max_bet, bets, profits) is counted in half dollars, *)
(*    so that Progressive's "* 0.5" of a whole-dollar base bet is exact.   *)
(*  - Expected value is counted in hundredths of a half dollar, so that    *)
(*    EXPECTED_VALUE_PER_DOLLAR = -0.07 is the integer -7.                 *)
(*  - Probabilities are counted in hundredths (0.49 is 49).  A uniform     *)
(*    draw of np.random.random() is d / DrawGrid for d in 0..DrawGrid-1;   *)
(*    the comparison  d / DrawGrid <= p / 100  is  d * 100 <= p * DrawGrid.*)
(*  - Arithmetic is exact: the rounding of Python floats is not modelled.  *)
(*  - run_all_hands is a loop; pc is the engine caller's position.  While  *)
(*    pc = "run_all_hands" only the loop's own steps are enabled (the      *)
(*    program is single threaded).                                         *)
(*  - bet_query is the last call of get_bet_amount made directly on one of *)
(*    the strategy objects (its arguments and the bet it returned).        *)
(*  - frame holds the locals of a call of run_single_hand that is followed *)
(*    statement by statement, and the calls it has made so far.            *)
(*  - modes holds one configuration and one sequence of draws, and the     *)
(*    simulator that run_all_hands leaves for them.                        *)
(*  - gui is the BlackjackGUI object (src/src/gui.py): its is_running      *)
(*    flag, its three buttons, the values start_simulation read from the   *)
(*    entry fields, and the number of run_simulation_step callbacks that   *)
(*    root.after has scheduled and Tk has not yet run.  Its simulator      *)
(*    field is sim.                                                        *)
(*  - Each variable is kept by the specifications that observe it and is   *)
(*    left as it is by the others.                                         *)
(***************************************************************************)
EXTENDS Integers, Sequences, FiniteSets

VARIABLES sim, pc, last_call, ret, draw, bet_query, frame, modes, gui

vars == <<sim, pc, last_call, ret, draw, bet_query, frame, modes, gui>>

(* ---- bounds of the model ---- *)
MaxHands == 4
MaxBaseBet == 2
MaxMaxBet == 4
DrawGrid == 13
MaxQueryStreak == 15
MaxTape == 3
MaxBatch == 3
MaxGuiHands == 2
MaxGuiBet == 2
MaxPending == 2

(* ---- src/src/constants.py (probabilities in hundredths) ---- *)
WIN_PROBABILITY == 49
LOSS_PROBABILITY == 42
TIE_PROBABILITY == 9
EXPECTED_VALUE_PER_DOLLAR == -7
DEFAULT_BASE_BET == 10
DEFAULT_MAX_BET == 1000

(* ---- Python builtins used by the code ---- *)
Min(a, b) == IF a <= b THEN a ELSE b

Max(a, b) == IF a >= b THEN a ELSE b

Abs(a) == IF a < 0 THEN 0 - a ELSE a

RECURSIVE Pow2(_)
Pow2(n) == IF n <= 0 THEN 1 ELSE 2 * Pow2(n - 1)

Half(x) == x \div 2

Last(s) == s[Len(s)]

RECURSIVE Count(_, _)
Count(s, v) == IF s = <<>> THEN 0
               ELSE (IF Head(s) = v THEN 1 ELSE 0) + Count(Tail(s), v)

RECURSIVE Sum(_)
Sum(s) == IF s = <<>> THEN 0 ELSE Head(s) + Sum(Tail(s))

RECURSIVE MaxOf(_)
MaxOf(s) == IF Len(s) = 1 THEN s[1] ELSE Max(Head(s), MaxOf(Tail(s)))

(* ---- src/src/strategies.py ---- *)
StrategyNames == {"Flat Betting", "Martingale", "Fibonacci", "Paroli", "Progressive"}

(* faulty variant: the flat bet is the table maximum *)
FlatBetting_ReturnsMax(base_bet, current_streak, total_profit, hand_number, max_bet) ==
    max_bet

(* faulty variant: the flat bet is not capped at max_bet *)
FlatBetting_Uncapped(base_bet, current_streak, total_profit, hand_number, max_bet) ==
    base_bet

FlatBetting(base_bet, current_streak, total_profit, hand_number, max_bet) ==
    Min(base_bet, max_bet)

(* faulty variant: the doubled bet is not capped at max_bet *)
Martingale_Uncapped(base_bet, current_streak, total_profit, hand_number, max_bet) ==
    IF current_streak >= 0
    THEN Min(base_bet, max_bet)
    ELSE base_bet * Pow2(Abs(current_streak))

(* faulty variant: the first loss does not double the bet yet *)
Martingale_LateDoubling(base_bet, current_streak, total_profit, hand_number, max_bet) ==
    IF current_streak >= 0
    THEN Min(base_bet, max_bet)
    ELSE LET bet == base_bet * Pow2(Abs(current_streak) - 1)
         IN  Min(bet, max_bet)

(* faulty variant: the bet is doubled while the profit is negative *)
Martingale_ChasesLosses(base_bet, current_streak, total_profit, hand_number, max_bet) ==
    IF total_profit >= 0
    THEN Min(base_bet, max_bet)
    ELSE LET bet == base_bet * Pow2(Abs(current_streak))
         IN  Min(bet, max_bet)

Martingale(base_bet, current_streak, total_profit, hand_number, max_bet) ==
    IF current_streak >= 0
    THEN Min(base_bet, max_bet)
    ELSE LET bet == base_bet * Pow2(Abs(current_streak))
         IN  Min(bet, max_bet)

fib_sequence == <<1, 1, 2, 3, 5, 8, 13, 21, 34, 55, 89, 144, 233, 377, 610>>

(* faulty variant: the table is indexed from the first loss *)
Fibonacci_IndexFromOne(base_bet, current_streak, total_profit, hand_number, max_bet) ==
    IF current_streak >= 0
    THEN Min(base_bet, max_bet)
    ELSE LET loss_count == Abs(current_streak)
             fib_index == Min(loss_count - 1, Len(fib_sequence) - 1)
         IN  Min(base_bet * fib_sequence[fib_index + 1], max_bet)

Fibonacci(base_bet, current_streak, total_profit, hand_number, max_bet) ==
    IF current_streak >= 0
    THEN Min(base_bet, max_bet)
    ELSE LET loss_count == Abs(current_streak)
             fib_index == Min(loss_count, Len(fib_sequence) - 1)
         IN  Min(base_bet * fib_sequence[fib_index + 1], max_bet)

max_progression == 3

(* faulty variant: the press is not limited to max_progression steps *)
Paroli_Unlimited(base_bet, current_streak, total_profit, hand_number, max_bet) ==
    IF current_streak <= 0
    THEN Min(base_bet, max_bet)
    ELSE Min(base_bet * Pow2(current_streak), max_bet)

Paroli(base_bet, current_streak, total_profit, hand_number, max_bet) ==
    IF current_streak <= 0
    THEN Min(base_bet, max_bet)
    ELSE LET progression == Min(current_streak, max_progression)
         IN  Min(base_bet * Pow2(progression), max_bet)

(* faulty variant: the step down on losses has no floor *)
Progressive_NoFloor(base_bet, current_streak, total_profit, hand_number, max_bet) ==
    LET bet == IF current_streak = 0
               THEN base_bet
               ELSE base_bet + Half(current_streak * base_bet)
    IN  Min(bet, max_bet)

Progressive(base_bet, current_streak, total_profit, hand_number, max_bet) ==
    LET bet == IF current_streak > 0
               THEN base_bet + Half(current_streak * base_bet)
               ELSE IF current_streak < 0
               THEN Max(Half(base_bet), base_bet + Half(current_streak * base_bet))
               ELSE base_bet
    IN  Min(bet, max_bet)

get_bet_amount(strategy, base_bet, current_streak, total_profit, hand_number, max_bet) ==
    CASE strategy = "Flat Betting" ->
            FlatBetting(base_bet, current_streak, total_profit, hand_number, max_bet)
      [] strategy = "Martingale" ->
            Martingale(base_bet, current_streak, total_profit, hand_number, max_bet)
      [] strategy = "Fibonacci" ->
            Fibonacci(base_bet, current_streak, total_profit, hand_number, max_bet)
      [] strategy = "Paroli" ->
            Paroli(base_bet, current_streak, total_profit, hand_number, max_bet)
      [] strategy = "Progressive" ->
            Progressive(base_bet, current_streak, total_profit, hand_number, max_bet)

(* ---- src/src/simulator.py ---- *)
BlackjackSimulator(num_hands, base_bet, max_bet, strategy) ==
    [ num_hands |-> num_hands,
      base_bet |-> base_bet,
      max_bet |-> max_bet,
      strategy |-> strategy,
      total_profit |-> 0,
      hand_results |-> <<>>,
      profit_history |-> <<>>,
      bet_history |-> <<>>,
      expected_value_history |-> <<>>,
      longest_win_streak |-> 0,
      current_win_streak |-> 0,
      longest_loss_streak |-> 0,
      current_loss_streak |-> 0,
      highest_profit |-> 0,
      lowest_profit |-> 0,
      current_hand |-> 0,
      is_running |-> FALSE ]

(* faulty variant: the thresholds taken in the order loss, then win *)
play_hand_LossThenWin(outcome) ==
    IF outcome * 100 < LOSS_PROBABILITY * DrawGrid
    THEN -1
    ELSE IF outcome * 100 < (LOSS_PROBABILITY + WIN_PROBABILITY) * DrawGrid
    THEN 1
    ELSE 0

(* outcome is the numerator d of the uniform draw d / DrawGrid *)
play_hand(outcome) ==
    IF outcome * 100 <= WIN_PROBABILITY * DrawGrid
    THEN -1
    ELSE IF outcome * 100 <= (WIN_PROBABILITY + LOSS_PROBABILITY) * DrawGrid
    THEN 1
    ELSE 0

(* faulty variant: a tie costs the stake *)
profit_after_TieLoses(self, result, bet_amount) ==
    IF result = 1 THEN self.total_profit + bet_amount
    ELSE self.total_profit - bet_amount

(* lines 53-58: the profit after the hand *)
profit_after(self, result, bet_amount) ==
    IF result = -1 THEN self.total_profit - bet_amount
    ELSE IF result = 1 THEN self.total_profit + bet_amount
    ELSE self.total_profit

(* faulty variant: a loss leaves the win streak standing *)
win_streak_after_LossKeeps(self, result) ==
    IF result = 1 THEN self.current_win_streak + 1
    ELSE self.current_win_streak

(* faulty variant: a tie resets the loss streak *)
loss_streak_after_TieResets(self, result) ==
    IF result = -1 THEN self.current_loss_streak - 1
    ELSE 0

(* lines 53-61: the streaks after the hand; a tie keeps them as they are *)
win_streak_after(self, result) ==
    IF result = -1 THEN 0
    ELSE IF result = 1 THEN self.current_win_streak + 1
    ELSE self.current_win_streak

loss_streak_after(self, result) ==
    IF result = -1 THEN self.current_loss_streak - 1
    ELSE IF result = 1 THEN 0
    ELSE self.current_loss_streak

(* faulty variant: the expected value of the hand alone, not accumulated *)
cumulative_ev_HandOnly(self, bet_amount) ==
    EXPECTED_VALUE_PER_DOLLAR * bet_amount

(* lines 69-72: the expected-value line *)
cumulative_ev(self, bet_amount) ==
    IF Len(self.expected_value_history) = 0
    THEN EXPECTED_VALUE_PER_DOLLAR * bet_amount
    ELSE Last(self.expected_value_history) + (EXPECTED_VALUE_PER_DOLLAR * bet_amount)

(* faulty variant: the peak follows the profit without comparing *)
highest_after_LastProfit(self, total_profit) == total_profit

(* lines 75-80: the highs and lows, which start at 0 in __init__ *)
highest_after(self, total_profit) ==
    IF total_profit > self.highest_profit THEN total_profit ELSE self.highest_profit

(* faulty variant: the low is compared with the high *)
lowest_after_ComparesHighest(self, total_profit) ==
    IF total_profit < self.highest_profit THEN total_profit ELSE self.lowest_profit

lowest_after(self, total_profit) ==
    IF total_profit < self.lowest_profit THEN total_profit ELSE self.lowest_profit

(* faulty variant: the bet is not recorded in bet_history *)
update_statistics_NoBetRecord(self, result, bet_amount) ==
    LET total_profit == profit_after(self, result, bet_amount)
        current_win_streak == win_streak_after(self, result)
        current_loss_streak == loss_streak_after(self, result)
    IN  [ self EXCEPT
            !.total_profit = total_profit,
            !.current_win_streak = current_win_streak,
            !.current_loss_streak = current_loss_streak,
            !.hand_results = Append(@, result),
            !.profit_history = Append(@, total_profit),
            !.expected_value_history = Append(@, cumulative_ev(self, bet_amount)),
            !.highest_profit = IF total_profit > @ THEN total_profit ELSE @,
            !.lowest_profit = IF total_profit < @ THEN total_profit ELSE @,
            !.longest_win_streak = IF current_win_streak > @ THEN current_win_streak ELSE @,
            !.longest_loss_streak = IF current_loss_streak < @ THEN current_loss_streak ELSE @ ]

(* faulty variant: the new entry is put in front of the list *)
append_AtFront(list, item) == << item >> \o list

(* list.append of lines 64-66 and 72 *)
append(list, item) == Append(list, item)

(* faulty variant: the profit is recorded before the hand is settled *)
update_statistics_RecordsBeforeUpdate(self, result, bet_amount) ==
    LET total_profit == profit_after(self, result, bet_amount)
        current_win_streak == win_streak_after(self, result)
        current_loss_streak == loss_streak_after(self, result)
    IN  [ self EXCEPT
            !.total_profit = total_profit,
            !.current_win_streak = current_win_streak,
            !.current_loss_streak = current_loss_streak,
            !.hand_results = Append(@, result),
            !.profit_history = Append(@, self.total_profit),
            !.bet_history = Append(@, bet_amount),
            !.expected_value_history = Append(@, cumulative_ev(self, bet_amount)),
            !.highest_profit = highest_after(self, total_profit),
            !.lowest_profit = lowest_after(self, total_profit),
            !.longest_win_streak = IF current_win_streak > @ THEN current_win_streak ELSE @,
            !.longest_loss_streak = IF current_loss_streak < @ THEN current_loss_streak ELSE @ ]

update_statistics(self, result, bet_amount) ==
    LET total_profit == profit_after(self, result, bet_amount)
        current_win_streak == win_streak_after(self, result)
        current_loss_streak == loss_streak_after(self, result)
    IN  [ self EXCEPT
            !.total_profit = total_profit,
            !.current_win_streak = current_win_streak,
            !.current_loss_streak = current_loss_streak,
            !.hand_results = append(@, result),
            !.profit_history = append(@, total_profit),
            !.bet_history = append(@, bet_amount),
            !.expected_value_history = append(@, cumulative_ev(self, bet_amount)),
            !.highest_profit = highest_after(self, total_profit),
            !.lowest_profit = lowest_after(self, total_profit),
            !.longest_win_streak = IF current_win_streak > @ THEN current_win_streak ELSE @,
            !.longest_loss_streak = IF current_loss_streak < @ THEN current_loss_streak ELSE @ ]

(* the signed streak handed to the strategy *)
SignedStreak(self) ==
    IF self.current_win_streak > 0 THEN self.current_win_streak
    ELSE self.current_loss_streak

(* faulty variant: the hand counter is not advanced *)
run_single_hand_NoAdvance(self, outcome) ==
    IF self.current_hand >= self.num_hands
    THEN [ self |-> self, returns |-> FALSE, drew |-> FALSE ]
    ELSE LET result == play_hand(outcome)
             bet_amount == get_bet_amount(self.strategy, self.base_bet,
                                          SignedStreak(self), self.total_profit,
                                          self.current_hand, self.max_bet)
         IN  [ self |-> update_statistics(self, result, bet_amount),
               returns |-> TRUE, drew |-> TRUE ]

(* faulty variant: the exhaustion test is off by one *)
run_single_hand_OffByOne(self, outcome) ==
    IF self.current_hand > self.num_hands
    THEN [ self |-> self, returns |-> FALSE, drew |-> FALSE ]
    ELSE LET result == play_hand(outcome)
             bet_amount == get_bet_amount(self.strategy, self.base_bet,
                                          SignedStreak(self), self.total_profit,
                                          self.current_hand, self.max_bet)
             updated == update_statistics(self, result, bet_amount)
         IN  [ self |-> [ updated EXCEPT !.current_hand = @ + 1 ],
               returns |-> TRUE, drew |-> TRUE ]

(* the method's effect on the object and its return value, for the draw outcome *)
run_single_hand(self, outcome) ==
    IF self.current_hand >= self.num_hands
    THEN [ self |-> self, returns |-> FALSE, drew |-> FALSE ]
    ELSE LET result == play_hand(outcome)
             bet_amount == get_bet_amount(self.strategy, self.base_bet,
                                          SignedStreak(self), self.total_profit,
                                          self.current_hand, self.max_bet)
             updated == update_statistics(self, result, bet_amount)
         IN  [ self |-> [ updated EXCEPT !.current_hand = @ + 1 ],
               returns |-> TRUE, drew |-> TRUE ]

(* faulty variant: the loop stops one hand early *)
run_all_hands_continues_OneShort(self) == self.current_hand + 1 < self.num_hands

(* line 110: the condition of run_all_hands' while loop *)
run_all_hands_continues(self) == self.current_hand < self.num_hands

(* lines 107-111: run_all_hands on self, its draws taken from ds in order; *)
(* the loop's condition is false before ds runs out when ds has one draw   *)
(* for each hand that is left                                              *)
RECURSIVE run_all_hands(_, _)
run_all_hands(self, ds) ==
    IF run_all_hands_continues(self) /\ ds # <<>>
    THEN run_all_hands(run_single_hand(self, Head(ds)).self, Tail(ds))
    ELSE self

NoStatistics == [ none |-> TRUE ]

(* lines 124-139: the record returned once a hand has been played *)
statistics_record(self) ==
    LET wins == Count(self.hand_results, 1)
        losses == Count(self.hand_results, -1)
        ties == Count(self.hand_results, 0)
        total_hands == Len(self.hand_results)
    IN  [ wins |-> wins,
          losses |-> losses,
          ties |-> ties,
          win_percentage |-> << wins * 100, total_hands >>,
          loss_percentage |-> << losses * 100, total_hands >>,
          tie_percentage |-> << ties * 100, total_hands >>,
          longest_win_streak |-> self.longest_win_streak,
          longest_loss_streak |-> Abs(self.longest_loss_streak),
          highest_profit |-> self.highest_profit,
          lowest_profit |-> self.lowest_profit,
          final_profit |-> self.total_profit,
          total_bet |-> Sum(self.bet_history),
          avg_bet |-> IF self.bet_history # <<>>
                      THEN << Sum(self.bet_history), Len(self.bet_history) >>
                      ELSE << 0, 1 >>,
          max_bet_used |-> IF self.bet_history # <<>>
                           THEN MaxOf(self.bet_history)
                           ELSE 0 ]

(* faulty variant: the empty result is also returned after the first hand *)
get_statistics_NoneAfterOne(self) ==
    IF Len(self.hand_results) <= 1 THEN NoStatistics ELSE statistics_record(self)

(* a quotient is the pair << numerator, denominator >>; the division is not carried out *)
get_statistics(self) ==
    LET total_hands == Len(self.hand_results)
    IN  IF total_hands = 0 THEN NoStatistics ELSE statistics_record(self)

(* ---- configurations ---- *)
Draws == 0 .. (DrawGrid - 1)

(* faulty variant: max_bet is not compared with base_bet *)
ValidConfig_NoOrderCheck(num_hands, base_bet, max_bet) ==
    ~(num_hands <= 0 \/ base_bet <= 0 \/ max_bet <= 0)

(* what start_simulation accepts before it constructs the simulator *)
ValidConfig(num_hands, base_bet, max_bet) ==
    /\ ~(num_hands <= 0 \/ base_bet <= 0 \/ max_bet <= 0)
    /\ ~(max_bet < base_bet)

AnyNumHands == -1 .. MaxHands

AnyBaseBet == { 2 * b : b \in -1 .. MaxBaseBet }

AnyMaxBet == { 2 * m : m \in -1 .. MaxMaxBet }

(* ---- the state machine ---- *)
NoBetQuery == [ asked |-> FALSE ]

NoFrame == [ calls |-> <<>>, result |-> 0, bet_amount |-> 0 ]

NoModes == [ asked |-> FALSE ]

NoGui == [ constructed |-> FALSE ]

InitCaller ==
    /\ pc = "idle"
    /\ last_call = "BlackjackSimulator"
    /\ ret = "None"
    /\ draw = 0
    /\ bet_query = NoBetQuery
    /\ frame = NoFrame
    /\ modes = NoModes
    /\ gui = NoGui

(* a simulator constructed the way the application constructs it *)
Init ==
    /\ \E num_hands \in AnyNumHands, base_bet \in AnyBaseBet, max_bet \in AnyMaxBet,
          strategy \in StrategyNames :
          /\ ValidConfig(num_hands, base_bet, max_bet)
          /\ sim = BlackjackSimulator(num_hands, base_bet, max_bet, strategy)
    /\ InitCaller

(* a simulator constructed directly, with any arguments *)
InitAnyConfig ==
    /\ \E num_hands \in AnyNumHands, base_bet \in AnyBaseBet, max_bet \in AnyMaxBet,
          strategy \in StrategyNames :
          sim = BlackjackSimulator(num_hands, base_bet, max_bet, strategy)
    /\ InitCaller

(* a three-hand simulator with the default bets and the flat strategy *)
InitScenario ==
    /\ sim = BlackjackSimulator(3, 2 * DEFAULT_BASE_BET, 2 * DEFAULT_MAX_BET,
                                "Flat Betting")
    /\ InitCaller

(* ---- the strategy objects called directly ---- *)
NoSimulator == [ constructed |-> FALSE ]

QueryStreaks == (0 - MaxQueryStreak) .. MaxQueryStreak

QueryMaxBets == AnyMaxBet \cup { 2 * DEFAULT_MAX_BET }

QueryProfits == { 0 - (2 * DEFAULT_BASE_BET), 0 }

QueryHandNumbers == { 0, MaxHands }

(* the application before any simulator is constructed: only the strategies *)
(* exist, and the arguments of a call of get_bet_amount have been chosen    *)
InitStrategy ==
    /\ sim = NoSimulator
    /\ pc = "idle"
    /\ last_call = "BlackjackGUI"
    /\ ret = "None"
    /\ draw = 0
    /\ frame = NoFrame
    /\ modes = NoModes
    /\ gui = NoGui
    /\ \E strategy \in StrategyNames, base_bet \in AnyBaseBet,
          current_streak \in QueryStreaks, total_profit \in QueryProfits,
          hand_number \in QueryHandNumbers, max_bet \in QueryMaxBets :
          bet_query = [ asked |-> FALSE,
                        strategy |-> strategy,
                        base_bet |-> base_bet,
                        current_streak |-> current_streak,
                        total_profit |-> total_profit,
                        hand_number |-> hand_number,
                        max_bet |-> max_bet,
                        bet |-> 0 ]

CallGetBetAmount ==
    /\ ~bet_query.asked
    /\ bet_query' = [ bet_query EXCEPT
                        !.asked = TRUE,
                        !.bet = get_bet_amount(bet_query.strategy, bet_query.base_bet,
                                               bet_query.current_streak,
                                               bet_query.total_profit,
                                               bet_query.hand_number,
                                               bet_query.max_bet) ]
    /\ UNCHANGED <<sim, pc, last_call, ret, draw, frame, modes, gui>>

CallRunSingleHand ==
    /\ pc = "idle"
    /\ \E outcome \in Draws :
          LET r == run_single_hand(sim, outcome)
          IN  /\ sim' = r.self
              /\ ret' = IF r.returns THEN "True" ELSE "False"
              /\ draw' = IF r.drew THEN outcome ELSE draw
    /\ last_call' = "run_single_hand"
    /\ pc' = pc
    /\ UNCHANGED <<bet_query, frame, modes, gui>>

CallRunAllHands ==
    /\ pc = "idle"
    /\ pc' = "run_all_hands"
    /\ last_call' = "run_all_hands"
    /\ ret' = "running"
    /\ UNCHANGED <<sim, draw, bet_query, frame, modes, gui>>

RunAllHandsLoop ==
    /\ pc = "run_all_hands"
    /\ run_all_hands_continues(sim)
    /\ \E outcome \in Draws :
          LET r == run_single_hand(sim, outcome)
          IN  /\ sim' = r.self
              /\ draw' = IF r.drew THEN outcome ELSE draw
    /\ UNCHANGED <<pc, last_call, ret, bet_query, frame, modes, gui>>

RunAllHandsReturn ==
    /\ pc = "run_all_hands"
    /\ ~run_all_hands_continues(sim)
    /\ pc' = "idle"
    /\ ret' = "None"
    /\ UNCHANGED <<sim, last_call, draw, bet_query, frame, modes, gui>>

(* faulty variant: the loss streak is made positive in place for the report *)
CallGetStatistics_NormalisesInPlace ==
    /\ pc = "idle"
    /\ last_call' = "get_statistics"
    /\ ret' = IF get_statistics(sim) = NoStatistics THEN "None" ELSE "dict"
    /\ sim' = [ sim EXCEPT !.longest_loss_streak = Abs(@) ]
    /\ UNCHANGED <<pc, draw, bet_query, frame, modes, gui>>

CallGetStatistics ==
    /\ pc = "idle"
    /\ last_call' = "get_statistics"
    /\ ret' = IF get_statistics(sim) = NoStatistics THEN "None" ELSE "dict"
    /\ UNCHANGED <<sim, pc, draw, bet_query, frame, modes, gui>>

Next ==
    \/ CallRunSingleHand
    \/ CallRunAllHands
    \/ RunAllHandsLoop
    \/ RunAllHandsReturn
    \/ CallGetStatistics

Spec == Init /\ [][Next]_vars

SpecAnyConfig == InitAnyConfig /\ [][Next]_vars

SpecScenario == InitScenario /\ [][Next]_vars

(* once run_all_hands is called the interpreter keeps executing its loop *)
SpecFair ==
    /\ Init
    /\ [][Next]_vars
    /\ WF_vars(RunAllHandsLoop)
    /\ WF_vars(RunAllHandsReturn)

NextStrategy == CallGetBetAmount

SpecStrategy == InitStrategy /\ [][NextStrategy]_vars

(* ---- run_single_hand followed statement by statement (lines 88-105) ---- *)
(* line 90, not exhausted: the call goes on to line 94 *)
EnterRunSingleHand ==
    /\ pc = "idle"
    /\ ~(sim.current_hand >= sim.num_hands)
    /\ pc' = "play_hand"
    /\ last_call' = "run_single_hand"
    /\ ret' = "running"
    /\ frame' = NoFrame
    /\ UNCHANGED <<sim, draw, bet_query, modes, gui>>

(* lines 90-91, exhausted: return False *)
RunSingleHandExhausted ==
    /\ pc = "idle"
    /\ sim.current_hand >= sim.num_hands
    /\ last_call' = "run_single_hand"
    /\ ret' = "False"
    /\ frame' = NoFrame
    /\ UNCHANGED <<sim, pc, draw, bet_query, modes, gui>>

(* line 94: result = self.play_hand() *)
StepPlayHand ==
    /\ pc = "play_hand"
    /\ \E outcome \in Draws :
          /\ draw' = outcome
          /\ frame' = [ frame EXCEPT !.result = play_hand(outcome),
                                     !.calls = Append(@, "play_hand") ]
    /\ pc' = "get_bet_amount"
    /\ UNCHANGED <<sim, last_call, ret, bet_query, modes, gui>>

(* lines 95-101: bet_amount = self.strategy.get_bet_amount(...) *)
StepGetBetAmount ==
    /\ pc = "get_bet_amount"
    /\ frame' = [ frame EXCEPT
                    !.bet_amount = get_bet_amount(sim.strategy, sim.base_bet,
                                                  SignedStreak(sim), sim.total_profit,
                                                  sim.current_hand, sim.max_bet),
                    !.calls = Append(@, "get_bet_amount") ]
    /\ pc' = "update_statistics"
    /\ UNCHANGED <<sim, last_call, ret, draw, bet_query, modes, gui>>

(* line 102: self.update_statistics(result, bet_amount) *)
StepUpdateStatistics ==
    /\ pc = "update_statistics"
    /\ sim' = update_statistics(sim, frame.result, frame.bet_amount)
    /\ frame' = [ frame EXCEPT !.calls = Append(@, "update_statistics") ]
    /\ pc' = "current_hand"
    /\ UNCHANGED <<last_call, ret, draw, bet_query, modes, gui>>

(* lines 103-105: self.current_hand += 1; return True *)
StepAdvance ==
    /\ pc = "current_hand"
    /\ sim' = [ sim EXCEPT !.current_hand = @ + 1 ]
    /\ frame' = [ frame EXCEPT !.calls = Append(@, "current_hand") ]
    /\ pc' = "idle"
    /\ ret' = "True"
    /\ UNCHANGED <<last_call, draw, bet_query, modes, gui>>

NextSteps ==
    \/ EnterRunSingleHand
    \/ RunSingleHandExhausted
    \/ StepPlayHand
    \/ StepGetBetAmount
    \/ StepUpdateStatistics
    \/ StepAdvance

SpecSteps == Init /\ [][NextSteps]_vars

(* ---- src/src/gui.py: the timer-driven way of running a simulation ---- *)
(* line 190 *)
hands_per_update(num_hands) == Max(1, num_hands \div 1000)

(* lines 192-195: n calls of run_single_hand, left at the first one that   *)
(* returns False (which sets is_running to False); the draws come from ds  *)
RECURSIVE run_batch(_, _, _)
run_batch(simulator, ds, n) ==
    IF n <= 0
    THEN [ simulator |-> simulator, is_running |-> TRUE, rest |-> ds ]
    ELSE LET r == run_single_hand(simulator, IF ds = <<>> THEN 0 ELSE Head(ds))
         IN  IF ~r.returns
             THEN [ simulator |-> r.self, is_running |-> FALSE, rest |-> ds ]
             ELSE run_batch(r.self, IF ds = <<>> THEN ds ELSE Tail(ds), n - 1)

(* lines 184-208 called again and again by the timer (line 206) for as long *)
(* as is_running stays True, each call running one batch of n hands         *)
RECURSIVE run_simulation_steps(_, _, _)
run_simulation_steps(simulator, ds, n) ==
    LET b == run_batch(simulator, ds, n)
    IN  IF b.is_running
        THEN run_simulation_steps(b.simulator, b.rest, n)
        ELSE b.simulator

(* ---- one configuration and one sequence of draws, run both ways ---- *)
Tapes(n) == [ 1 .. n -> Draws ]

InitModes ==
    /\ pc = "idle"
    /\ last_call = "BlackjackSimulator"
    /\ ret = "None"
    /\ draw = 0
    /\ bet_query = NoBetQuery
    /\ frame = NoFrame
    /\ gui = NoGui
    /\ \E num_hands \in 1 .. MaxTape, strategy \in StrategyNames,
          batch \in 1 .. MaxBatch :
          \E tape \in Tapes(num_hands) :
             /\ sim = BlackjackSimulator(num_hands, 2 * DEFAULT_BASE_BET,
                                         2 * DEFAULT_MAX_BET, strategy)
             /\ modes = [ asked |-> FALSE, tape |-> tape, batch |-> batch,
                          fast |-> sim ]

(* sim is run by timer steps in batches of modes.batch hands; modes.fast is *)
(* the same new simulator run by run_all_hands on the same draws            *)
CallBothModes ==
    /\ ~modes.asked
    /\ sim' = run_simulation_steps(sim, modes.tape, modes.batch)
    /\ modes' = [ modes EXCEPT !.asked = TRUE,
                                !.fast = run_all_hands(modes.fast, modes.tape) ]
    /\ UNCHANGED <<pc, last_call, ret, draw, bet_query, frame, gui>>

NextModes == CallBothModes

SpecModes == InitModes /\ [][NextModes]_vars

(* ---- src/src/gui.py: the BlackjackGUI object and its handlers ---- *)
(* Besides the object's is_running and the state of its three buttons, gui *)
(* records: stats_text, the first line update_stats_display left in the    *)
(* panel; read, the locals num_hands, base_bet and max_bet of the running  *)
(* start_simulation and raised, the message of the ValueError it raised    *)
(* (both gone when the handler returns); pending, the run_simulation_step  *)
(* callbacks scheduled by root.after and not yet run; hands_since_start,   *)
(* the number of rounds played since start_simulation last constructed a   *)
(* simulator; animate, the value of animate_var that start_simulation last *)
(* read (line 169); completes, the calls of simulation_complete since      *)
(* start_simulation or reset_simulation last replaced the simulator.       *)
(* The entries hold numbers: text that int() or float()        *)
(* rejects raises a ValueError as well, caught by the same except clause.  *)
(* Tk runs one handler at a time: pc = "idle" is the event loop waiting.    *)
EntryNumHands == 0 .. MaxGuiHands

EntryBets == { 2 * b : b \in 0 .. MaxGuiBet }

(* the choices of the strategy menu that the user makes here *)
EntryStrategies == { "Flat Betting", "Martingale" }

(* lines 314-399: what the statistics panel shows *)
update_stats_display(simulator, error_msg) ==
    IF error_msg # "" THEN error_msg
    ELSE IF simulator = NoSimulator THEN "Run a simulation to see statistics"
    ELSE IF get_statistics(simulator) = NoStatistics THEN ""
    ELSE "SIMULATION RESULTS DASHBOARD"

(* lines 234-239 *)
simulation_complete(self, simulator) ==
    [ self EXCEPT !.start_button = "normal",
                  !.stop_button = "disabled",
                  !.reset_button = "normal",
                  !.stats_text = update_stats_display(simulator, ""),
                  !.completes = @ + 1 ]

(* the locals of start_simulation before it has read the entries *)
NoRead == [ num_hands |-> 0, base_bet |-> 0, max_bet |-> 0 ]

(* lines 152-156: the message of the ValueError raised for a refused entry *)
ValueError(num_hands, base_bet, max_bet) ==
    IF num_hands <= 0 \/ base_bet <= 0 \/ max_bet <= 0
    THEN "Error: Values must be positive"
    ELSE "Error: Max bet must be >= base bet"

(* faulty variant: a simulator that is there already is kept *)
start_simulation_KeepsSimulator(self, simulator, num_hands, base_bet, max_bet, strategy_name, animate) ==
    LET read == [ num_hands |-> num_hands, base_bet |-> base_bet, max_bet |-> max_bet ]
    IN  IF ~ValidConfig(num_hands, base_bet, max_bet)
        THEN [ self |-> [ self EXCEPT !.read = read,
                                      !.raised = ValueError(num_hands, base_bet, max_bet) ],
               simulator |-> simulator,
               pc |-> "except" ]
        ELSE [ self |-> [ self EXCEPT !.read = read,
                                      !.is_running = TRUE,
                                      !.start_button = "disabled",
                                      !.stop_button = "normal",
                                      !.reset_button = "disabled",
                                      !.hands_since_start = 0,
                                      !.animate = animate,
                                      !.completes = 0 ],
               simulator |-> IF simulator = NoSimulator
                             THEN BlackjackSimulator(num_hands, base_bet, max_bet,
                                                     strategy_name)
                             ELSE simulator,
               pc |-> IF ~animate THEN "run_all_hands" ELSE "run_simulation_step" ]

(* lines 143-182 up to the choice of the mode: the handler's effect on the *)
(* GUI object and its simulator, and where it continues (pc): in           *)
(* run_all_hands (line 170), in run_simulation_step (line 178), or in the  *)
(* except clause (line 180)                                                *)
start_simulation(self, simulator, num_hands, base_bet, max_bet, strategy_name, animate) ==
    LET read == [ num_hands |-> num_hands, base_bet |-> base_bet, max_bet |-> max_bet ]
    IN  IF ~ValidConfig(num_hands, base_bet, max_bet)
        THEN [ self |-> [ self EXCEPT !.read = read,
                                      !.raised = ValueError(num_hands, base_bet, max_bet) ],
               simulator |-> simulator,
               pc |-> "except" ]
        ELSE [ self |-> [ self EXCEPT !.read = read,
                                      !.is_running = TRUE,
                                      !.start_button = "disabled",
                                      !.stop_button = "normal",
                                      !.reset_button = "disabled",
                                      !.hands_since_start = 0,
                                      !.animate = animate,
                                      !.completes = 0 ],
               simulator |-> BlackjackSimulator(num_hands, base_bet, max_bet,
                                                strategy_name),
               pc |-> IF ~animate THEN "run_all_hands" ELSE "run_simulation_step" ]

(* faulty variant: a call that leaves the run going schedules no next call *)
run_simulation_step_NoReschedule(self, simulator, ds) ==
    IF ~self.is_running \/ simulator = NoSimulator
    THEN [ self |-> self, simulator |-> simulator ]
    ELSE LET b == run_batch(simulator, ds, hands_per_update(simulator.num_hands))
             shown == [ self EXCEPT
                          !.is_running = b.is_running,
                          !.stats_text = update_stats_display(b.simulator, ""),
                          !.hands_since_start =
                              @ + (b.simulator.current_hand - simulator.current_hand) ]
         IN  IF shown.is_running
             THEN [ self |-> shown, simulator |-> b.simulator ]
             ELSE [ self |-> simulation_complete(shown, b.simulator),
                    simulator |-> b.simulator ]

(* lines 184-208: one call of run_simulation_step, its draws taken from ds *)
run_simulation_step(self, simulator, ds) ==
    IF ~self.is_running \/ simulator = NoSimulator
    THEN [ self |-> self, simulator |-> simulator ]
    ELSE LET b == run_batch(simulator, ds, hands_per_update(simulator.num_hands))
             shown == [ self EXCEPT
                          !.is_running = b.is_running,
                          !.stats_text = update_stats_display(b.simulator, ""),
                          !.hands_since_start =
                              @ + (b.simulator.current_hand - simulator.current_hand) ]
         IN  IF shown.is_running
             THEN [ self |-> [ shown EXCEPT !.pending = @ + 1 ],
                    simulator |-> b.simulator ]
             ELSE [ self |-> simulation_complete(shown, b.simulator),
                    simulator |-> b.simulator ]

(* the draws one call of run_simulation_step can need *)
StepTapes(simulator) ==
    IF simulator = NoSimulator THEN { <<>> }
    ELSE Tapes(hands_per_update(simulator.num_hands))

(* lines 30-48 and the buttons as setup_ui creates them *)
InitGui ==
    /\ sim = NoSimulator
    /\ gui = [ is_running |-> FALSE,
               start_button |-> "normal",
               stop_button |-> "disabled",
               reset_button |-> "normal",
               stats_text |-> "",
               read |-> NoRead,
               raised |-> "",
               pending |-> 0,
               hands_since_start |-> 0,
               animate |-> FALSE,
               completes |-> 0 ]
    /\ pc = "idle"
    /\ last_call = "BlackjackGUI"
    /\ ret = "None"
    /\ draw = 0
    /\ bet_query = NoBetQuery
    /\ frame = NoFrame
    /\ modes = NoModes

(* the user presses Run Simulation; an animated start is left out once     *)
(* MaxPending callbacks are scheduled.  The strategy menu and the animate  *)
(* box are read after the checks only (lines 158, 169).                    *)
StartSimulation ==
    /\ pc = "idle"
    /\ gui.start_button = "normal"
    /\ \E num_hands \in EntryNumHands, base_bet \in EntryBets, max_bet \in EntryBets :
          \E strategy_name \in IF ValidConfig(num_hands, base_bet, max_bet)
                                THEN EntryStrategies ELSE { "Flat Betting" },
             animate \in IF ValidConfig(num_hands, base_bet, max_bet)
                          THEN BOOLEAN ELSE { FALSE } :
             LET r == start_simulation(gui, sim, num_hands, base_bet, max_bet,
                                       strategy_name, animate)
             IN  /\ r.pc = "run_simulation_step" => gui.pending < MaxPending
                 /\ gui' = r.self
                 /\ sim' = r.simulator
                 /\ pc' = r.pc
    /\ last_call' = "start_simulation"
    /\ UNCHANGED <<ret, draw, bet_query, frame, modes>>

(* lines 180-182: the except clause shows the message *)
StartSimulationExcept ==
    /\ pc = "except"
    /\ gui' = [ gui EXCEPT !.stats_text = update_stats_display(sim, gui.raised),
                           !.raised = "",
                           !.read = NoRead ]
    /\ pc' = "idle"
    /\ UNCHANGED <<sim, last_call, ret, draw, bet_query, frame, modes>>

(* line 170: one pass of run_all_hands' loop inside start_simulation *)
StartRunAllHandsLoop ==
    /\ pc = "run_all_hands"
    /\ gui # NoGui
    /\ run_all_hands_continues(sim)
    /\ \E outcome \in Draws : sim' = run_single_hand(sim, outcome).self
    /\ gui' = [ gui EXCEPT !.hands_since_start = @ + 1 ]
    /\ UNCHANGED <<pc, last_call, ret, draw, bet_query, frame, modes>>

(* lines 171-176: run_all_hands has returned; the results are shown *)
StartRunAllHandsDone ==
    /\ pc = "run_all_hands"
    /\ gui # NoGui
    /\ ~run_all_hands_continues(sim)
    /\ gui' = [ simulation_complete(gui, sim) EXCEPT !.read = NoRead ]
    /\ pc' = "idle"
    /\ UNCHANGED <<sim, last_call, ret, draw, bet_query, frame, modes>>

(* line 178: start_simulation calls run_simulation_step itself *)
StartRunSimulationStep ==
    /\ pc = "run_simulation_step"
    /\ \E ds \in StepTapes(sim) :
          LET r == run_simulation_step(gui, sim, ds)
          IN  /\ gui' = [ r.self EXCEPT !.read = NoRead ]
              /\ sim' = r.simulator
    /\ pc' = "idle"
    /\ UNCHANGED <<last_call, ret, draw, bet_query, frame, modes>>

(* Tk runs a callback that line 206 scheduled *)
TimerRunSimulationStep ==
    /\ pc = "idle"
    /\ gui # NoGui
    /\ gui.pending > 0
    /\ \E ds \in StepTapes(sim) :
          LET r == run_simulation_step([ gui EXCEPT !.pending = @ - 1 ], sim, ds)
          IN  /\ gui' = r.self
              /\ sim' = r.simulator
    /\ last_call' = "run_simulation_step"
    /\ UNCHANGED <<pc, ret, draw, bet_query, frame, modes>>

(* lines 210-216: the user presses Stop *)
StopSimulation ==
    /\ pc = "idle"
    /\ gui # NoGui
    /\ gui.stop_button = "normal"
    /\ gui' = [ gui EXCEPT !.is_running = FALSE,
                           !.start_button = "normal",
                           !.stop_button = "disabled",
                           !.reset_button = "normal" ]
    /\ last_call' = "stop_simulation"
    /\ UNCHANGED <<sim, pc, ret, draw, bet_query, frame, modes>>

(* lines 218-232: the user presses Reset *)
ResetSimulation ==
    /\ pc = "idle"
    /\ gui # NoGui
    /\ gui.reset_button = "normal"
    /\ sim' = NoSimulator
    /\ gui' = [ gui EXCEPT !.is_running = FALSE,
                           !.start_button = "normal",
                           !.stop_button = "disabled",
                           !.reset_button = "normal",
                           !.stats_text = "",
                           !.hands_since_start = 0,
                           !.completes = 0 ]
    /\ last_call' = "reset_simulation"
    /\ UNCHANGED <<pc, ret, draw, bet_query, frame, modes>>

NextGui ==
    \/ StartSimulation
    \/ StartSimulationExcept
    \/ StartRunAllHandsLoop
    \/ StartRunAllHandsDone
    \/ StartRunSimulationStep
    \/ TimerRunSimulationStep
    \/ StopSimulation
    \/ ResetSimulation

SpecGui == InitGui /\ [][NextGui]_vars

(* Tk's main loop runs every callback that root.after scheduled (line 206) *)
(* once its delay is over, and the run_simulation_step that                *)
(* start_simulation calls (line 178) runs as the handler goes on; what the *)
(* user presses, and when, is left open.                                   *)
SpecGuiFair ==
    /\ InitGui
    /\ [][NextGui]_vars
    /\ WF_vars(StartRunSimulationStep \/ TimerRunSimulationStep)

(* ======================================================================= *)
(* Properties                                                              *)
(* ======================================================================= *)

(* a step in which a round was recorded *)
RoundPlayed == Len(sim'.hand_results) = Len(sim.hand_results) + 1

(* a step that is a call of run_single_hand by the engine's caller *)
SingleHandCall == pc = "idle" /\ last_call' = "run_single_hand"

(* a step that is a call of run_single_hand by run_all_hands' loop *)
LoopCall == pc = "run_all_hands" /\ pc' = "run_all_hands"

(* t is s with exactly one entry appended *)
OneAppended(s, t) == Len(t) = Len(s) + 1 /\ SubSeq(t, 1, Len(s)) = s

(* C1: when current_hand < num_hands, one call of run_single_hand advances  *)
(* exactly one round: current_hand grows by exactly 1, exactly one entry is *)
(* appended to each of the four histories, and the call returns True (the   *)
(* calls made by run_all_hands' loop included, whose result is dropped).    *)
C1_StepAdvancesOneRound ==
    [][ ((SingleHandCall \/ LoopCall) /\ sim.current_hand < sim.num_hands) =>
            /\ sim'.current_hand = sim.current_hand + 1
            /\ OneAppended(sim.hand_results, sim'.hand_results)
            /\ OneAppended(sim.profit_history, sim'.profit_history)
            /\ OneAppended(sim.bet_history, sim'.bet_history)
            /\ OneAppended(sim.expected_value_history, sim'.expected_value_history)
            /\ SingleHandCall => ret' = "True" ]_vars

C1_Witness ==
    /\ pc = "idle"
    /\ last_call = "run_single_hand"
    /\ ret = "True"
    /\ sim.current_hand = 2
    /\ sim.current_hand < sim.num_hands

(* C2: once current_hand = num_hands, every further call of run_single_hand *)
(* returns False, every further call of run_all_hands returns normally      *)
(* (with None), and no step changes any field of the simulator.             *)
C2_IdempotentPastCompletion ==
    [][ sim.current_hand = sim.num_hands =>
            /\ sim' = sim
            /\ SingleHandCall => ret' = "False"
            /\ pc = "run_all_hands" => (pc' = "idle" /\ ret' = "None") ]_vars

C2_Witness ==
    /\ pc = "idle"
    /\ last_call = "run_single_hand"
    /\ ret = "False"
    /\ sim.current_hand = sim.num_hands
    /\ Len(sim.hand_results) = sim.num_hands
    /\ sim.num_hands >= 2

(* C3: once run_all_hands has returned, the statistics satisfy              *)
(* wins + losses + ties = num_hands, whatever the outcomes and the strategy.*)
C3_CountsSumToNumHands ==
    (pc = "idle" /\ last_call = "run_all_hands") =>
        /\ get_statistics(sim) # NoStatistics
        /\ get_statistics(sim).wins + get_statistics(sim).losses
              + get_statistics(sim).ties = sim.num_hands

C3_Witness ==
    /\ pc = "idle"
    /\ last_call = "run_all_hands"
    /\ sim.num_hands >= 3
    /\ get_statistics(sim) # NoStatistics
    /\ get_statistics(sim).wins >= 1
    /\ get_statistics(sim).losses >= 1
    /\ get_statistics(sim).ties >= 1

(* C4: if base_bet > 0 and max_bet >= base_bet, every stake recorded in     *)
(* bet_history is between 0 and max_bet, for each of the five strategies    *)
(* and every sequence of outcomes.                                          *)
C4_StakeWithinBounds ==
    (sim.base_bet > 0 /\ sim.max_bet >= sim.base_bet) =>
        \A i \in 1 .. Len(sim.bet_history) :
            0 <= sim.bet_history[i] /\ sim.bet_history[i] <= sim.max_bet

(* the cap was binding: a doubled Martingale bet was cut down to max_bet *)
C4_Witness ==
    /\ sim.strategy = "Martingale"
    /\ sim.base_bet > 0
    /\ sim.max_bet > sim.base_bet
    /\ sim.max_bet % sim.base_bet # 0
    /\ Len(sim.bet_history) >= 2
    /\ Last(sim.bet_history) = sim.max_bet

(* C5 as stated: a draw u in [0, 0.42) yields Loss, u in [0.42, 0.91)       *)
(* yields Win, and u in [0.91, 1) yields Tie.  (draw is the last draw, its  *)
(* result the last entry of hand_results.)                                  *)
C5_Original_LossBelow42 ==
    Len(sim.hand_results) > 0 =>
        /\ draw * 100 < 42 * DrawGrid => Last(sim.hand_results) = -1
        /\ (42 * DrawGrid <= draw * 100 /\ draw * 100 < 91 * DrawGrid)
              => Last(sim.hand_results) = 1
        /\ 91 * DrawGrid <= draw * 100 => Last(sim.hand_results) = 0

(* C5 amended: a draw u <= 0.49 yields Loss, 0.49 < u <= 0.91 yields Win,   *)
(* and u > 0.91 yields Tie.                                                 *)
C5_LossUpTo49 ==
    Len(sim.hand_results) > 0 =>
        /\ draw * 100 <= 49 * DrawGrid => Last(sim.hand_results) = -1
        /\ (49 * DrawGrid < draw * 100 /\ draw * 100 <= 91 * DrawGrid)
              => Last(sim.hand_results) = 1
        /\ 91 * DrawGrid < draw * 100 => Last(sim.hand_results) = 0

(* a draw between 0.42 and 0.49 that was a Loss *)
C5_Witness ==
    /\ Len(sim.hand_results) > 0
    /\ 42 * DrawGrid <= draw * 100
    /\ draw * 100 <= 49 * DrawGrid
    /\ Last(sim.hand_results) = -1

(* C6 as stated: an engine with num_hands <= 0, base_bet <= 0 or            *)
(* max_bet < base_bet is never constructed, so no round is ever executed   *)
(* on an engine with such a config.                                        *)
C6_NoRoundOnInvalidConfig ==
    sim.current_hand > 0 =>
        ~(sim.num_hands <= 0 \/ sim.base_bet <= 0 \/ sim.max_bet < sim.base_bet)

(* C7: a Tie leaves the streak untouched: after a round whose outcome is    *)
(* Tie, current_win_streak and current_loss_streak are what they were       *)
(* before the round, and so is the signed streak handed to the strategy.    *)
C7_TieKeepsStreak ==
    [][ (RoundPlayed /\ Last(sim'.hand_results) = 0) =>
            /\ sim'.current_win_streak = sim.current_win_streak
            /\ sim'.current_loss_streak = sim.current_loss_streak
            /\ SignedStreak(sim') = SignedStreak(sim) ]_vars

(* a tie after two losses, the loss streak carried across it *)
C7_Witness ==
    /\ Len(sim.hand_results) >= 3
    /\ Last(sim.hand_results) = 0
    /\ sim.current_loss_streak = -2

(* C8: on a Win the win streak grows by exactly 1 and the loss streak is    *)
(* reset to 0; on a Loss the loss streak falls by exactly 1 and the win     *)
(* streak is reset to 0.                                                    *)
C8_StreakUpdate ==
    [][ RoundPlayed =>
            /\ Last(sim'.hand_results) = 1 =>
                  /\ sim'.current_win_streak = sim.current_win_streak + 1
                  /\ sim'.current_loss_streak = 0
            /\ Last(sim'.hand_results) = -1 =>
                  /\ sim'.current_loss_streak = sim.current_loss_streak - 1
                  /\ sim'.current_win_streak = 0 ]_vars

(* two wins, then a loss that reset the win streak *)
C8_Witness ==
    /\ Len(sim.hand_results) >= 3
    /\ sim.longest_win_streak >= 2
    /\ Last(sim.hand_results) = -1
    /\ sim.current_win_streak = 0
    /\ sim.current_loss_streak = -1

(* C9: for every round i, profit_history[i] is the previous cumulative      *)
(* profit (0 for the first round) plus bet_history[i] on a Win, minus       *)
(* bet_history[i] on a Loss, and unchanged on a Tie.                        *)
C9_ProfitAccounting ==
    /\ Len(sim.hand_results) = Len(sim.profit_history)
    /\ Len(sim.bet_history) = Len(sim.profit_history)
    /\ \A i \in 1 .. Len(sim.profit_history) :
          LET previous == IF i = 1 THEN 0 ELSE sim.profit_history[i - 1]
          IN  /\ sim.hand_results[i] = 1 =>
                    sim.profit_history[i] = previous + sim.bet_history[i]
              /\ sim.hand_results[i] = -1 =>
                    sim.profit_history[i] = previous - sim.bet_history[i]
              /\ sim.hand_results[i] = 0 =>
                    sim.profit_history[i] = previous

(* a win, a loss and a tie have all been accounted, at differing stakes *)
C9_Witness ==
    /\ Count(sim.hand_results, 1) >= 1
    /\ Count(sim.hand_results, -1) >= 1
    /\ Count(sim.hand_results, 0) >= 1
    /\ \E i, j \in 1 .. Len(sim.bet_history) : sim.bet_history[i] # sim.bet_history[j]
    /\ sim.total_profit # 0

(* the sum of EXPECTED_VALUE_PER_DOLLAR * bets[i] for i in 1..n *)
RECURSIVE EvOfStakes(_, _)
EvOfStakes(bets, n) ==
    IF n = 0 THEN 0
    ELSE EvOfStakes(bets, n - 1) + EXPECTED_VALUE_PER_DOLLAR * bets[n]

(* C10: after N completed rounds the last entry of expected_value_history   *)
(* is the sum over i in 1..N of EXPECTED_VALUE_PER_DOLLAR * bet_history[i], *)
(* for every N between 1 and num_hands.                                     *)
C10_ExpectedValueIsSum ==
    /\ Len(sim.expected_value_history) = Len(sim.bet_history)
    /\ \A n \in 1 .. Len(sim.expected_value_history) :
          sim.expected_value_history[n] = EvOfStakes(sim.bet_history, n)

(* a full run of at least three rounds at differing stakes *)
C10_Witness ==
    /\ Len(sim.expected_value_history) >= 3
    /\ Len(sim.expected_value_history) = sim.num_hands
    /\ sim.bet_history[1] # sim.bet_history[2]
    /\ sim.bet_history[2] # sim.bet_history[3]

(* C12: with num_hands = 3, base_bet = 10, max_bet = 1000, the flat         *)
(* strategy and the outcomes Loss, Win, Tie, the profit history is          *)
(* -10, 0, 0 (dollars; -20, 0, 0 half dollars) and the statistics report    *)
(* wins = 1, losses = 1, ties = 1 and final_profit = 0.                     *)
C12_LossWinTieScenario ==
    (/\ sim.num_hands = 3
     /\ sim.base_bet = 2 * 10
     /\ sim.max_bet = 2 * 1000
     /\ sim.strategy = "Flat Betting"
     /\ sim.hand_results = << -1, 1, 0 >>) =>
        /\ sim.profit_history = << 0 - (2 * 10), 0, 0 >>
        /\ get_statistics(sim) # NoStatistics
        /\ get_statistics(sim).wins = 1
        /\ get_statistics(sim).losses = 1
        /\ get_statistics(sim).ties = 1
        /\ get_statistics(sim).final_profit = 0

C12_Witness ==
    /\ sim.num_hands = 3
    /\ sim.base_bet = 2 * 10
    /\ sim.max_bet = 2 * 1000
    /\ sim.strategy = "Flat Betting"
    /\ sim.hand_results = << -1, 1, 0 >>
    /\ sim.current_hand = 3

(* the smaller and the larger of two amounts *)
LeastOf(a, b) == IF a < b THEN a ELSE b

GreatestOf(a, b) == IF a > b THEN a ELSE b

(* x doubled n times *)
RECURSIVE Doubled(_, _)
Doubled(x, n) == IF n <= 0 THEN x ELSE Doubled(x + x, n - 1)

(* C13: under the flat strategy the stake of every round is the constant    *)
(* min(base_bet, max_bet), whatever the streak, profit and round number.    *)
C13_FlatStakeConstant ==
    sim.strategy = "Flat Betting" =>
        \A i \in 1 .. Len(sim.bet_history) :
            sim.bet_history[i] = LeastOf(sim.base_bet, sim.max_bet)

(* flat bets capped by a max_bet below base_bet, across a win and a loss *)
C13_Witness ==
    /\ sim.strategy = "Flat Betting"
    /\ sim.max_bet > 0
    /\ sim.max_bet < sim.base_bet
    /\ Len(sim.bet_history) >= 3
    /\ Count(sim.hand_results, 1) >= 1
    /\ Count(sim.hand_results, -1) >= 1

(* C14: Martingale stakes min(base_bet, max_bet) for streak >= 0 and        *)
(* min(base_bet * 2^|streak|, max_bet) for streak < 0; streak -3 gives      *)
(* min(base_bet * 8, max_bet).                                              *)
C14_MartingaleStake ==
    (bet_query.asked /\ bet_query.strategy = "Martingale") =>
        /\ bet_query.current_streak >= 0 =>
              bet_query.bet = LeastOf(bet_query.base_bet, bet_query.max_bet)
        /\ bet_query.current_streak < 0 =>
              bet_query.bet = LeastOf(Doubled(bet_query.base_bet,
                                              0 - bet_query.current_streak),
                                      bet_query.max_bet)
        /\ bet_query.current_streak = -3 =>
              bet_query.bet = LeastOf(bet_query.base_bet * 8, bet_query.max_bet)

(* three losses: eight times the base bet, below the cap *)
C14_Witness ==
    /\ bet_query.asked
    /\ bet_query.strategy = "Martingale"
    /\ bet_query.current_streak = -3
    /\ bet_query.base_bet > 0
    /\ bet_query.bet = bet_query.base_bet * 8
    /\ bet_query.bet < bet_query.max_bet

(* the multipliers of C15, for 0, 1, 2, ... losses *)
C15_Multipliers == << 1, 1, 2, 3, 5, 8, 13, 21, 34, 55, 89, 144, 233, 377, 610 >>

(* C15: Fibonacci stakes min(base_bet, max_bet) for streak >= 0 and         *)
(* min(base_bet * fib[min(|streak|, 14)], max_bet) for streak < 0; streak   *)
(* -4 gives min(base_bet * 5, max_bet) and every loss streak of 14 or more  *)
(* uses the last entry, 610.                                                *)
C15_FibonacciStake ==
    (bet_query.asked /\ bet_query.strategy = "Fibonacci") =>
        /\ bet_query.current_streak >= 0 =>
              bet_query.bet = LeastOf(bet_query.base_bet, bet_query.max_bet)
        /\ bet_query.current_streak < 0 =>
              bet_query.bet =
                 LeastOf(bet_query.base_bet
                            * C15_Multipliers[LeastOf(0 - bet_query.current_streak, 14) + 1],
                         bet_query.max_bet)
        /\ bet_query.current_streak = -4 =>
              bet_query.bet = LeastOf(bet_query.base_bet * 5, bet_query.max_bet)
        /\ bet_query.current_streak <= -14 =>
              bet_query.bet = LeastOf(bet_query.base_bet * 610, bet_query.max_bet)

(* a loss streak beyond the table: 610 times the base bet, below the cap *)
C15_Witness ==
    /\ bet_query.asked
    /\ bet_query.strategy = "Fibonacci"
    /\ bet_query.current_streak < -14
    /\ bet_query.base_bet > 0
    /\ bet_query.bet = bet_query.base_bet * 610
    /\ bet_query.bet < bet_query.max_bet

C17_ProgressiveStake ==
    (bet_query.asked /\ bet_query.strategy = "Progressive") =>
        /\ bet_query.current_streak > 0 =>
              2 * bet_query.bet =
                 LeastOf(2 * bet_query.base_bet
                            + bet_query.current_streak * bet_query.base_bet,
                         2 * bet_query.max_bet)
        /\ bet_query.current_streak < 0 =>
              2 * bet_query.bet =
                 LeastOf(GreatestOf(bet_query.base_bet,
                                    2 * bet_query.base_bet
                                       + bet_query.current_streak * bet_query.base_bet),
                         2 * bet_query.max_bet)
        /\ bet_query.current_streak = 0 =>
              bet_query.bet = LeastOf(bet_query.base_bet, bet_query.max_bet)
        /\ (/\ bet_query.current_streak < 0
            /\ bet_query.base_bet > 0
            /\ bet_query.max_bet >= bet_query.base_bet) =>
              2 * bet_query.bet >= bet_query.base_bet

(* a long loss streak held at half the base bet *)
C17_Witness ==
    /\ bet_query.asked
    /\ bet_query.strategy = "Progressive"
    /\ bet_query.current_streak <= -3
    /\ bet_query.base_bet > 0
    /\ bet_query.max_bet >= bet_query.base_bet
    /\ 2 * bet_query.bet = bet_query.base_bet

(* C18: get_statistics returns the empty result (None) if and only if no    *)
(* round has completed; after at least one round it returns the full record *)
(* and no quotient in it has a zero denominator.                            *)
C18_EmptyIffNoRound ==
    /\ (get_statistics(sim) = NoStatistics) <=> (sim.current_hand = 0)
    /\ sim.current_hand >= 1 =>
          /\ DOMAIN get_statistics(sim) =
                { "wins", "losses", "ties", "win_percentage", "loss_percentage",
                  "tie_percentage", "longest_win_streak", "longest_loss_streak",
                  "highest_profit", "lowest_profit", "final_profit", "total_bet",
                  "avg_bet", "max_bet_used" }
          /\ get_statistics(sim).win_percentage[2] # 0
          /\ get_statistics(sim).loss_percentage[2] # 0
          /\ get_statistics(sim).tie_percentage[2] # 0
          /\ get_statistics(sim).avg_bet[2] # 0

(* get_statistics called right after the first round *)
C18_Witness ==
    /\ pc = "idle"
    /\ last_call = "get_statistics"
    /\ ret = "dict"
    /\ sim.current_hand = 1
    /\ sim.num_hands > 1

(* C19: in every reachable state, mid-run included, the four histories all  *)
(* have length current_hand, and the numbers of wins, losses and ties in    *)
(* hand_results sum to that length.                                         *)
C19_HistoryLengths ==
    /\ Len(sim.hand_results) = sim.current_hand
    /\ Len(sim.profit_history) = sim.current_hand
    /\ Len(sim.bet_history) = sim.current_hand
    /\ Len(sim.expected_value_history) = sim.current_hand
    /\ Count(sim.hand_results, 1) + Count(sim.hand_results, -1)
          + Count(sim.hand_results, 0) = sim.current_hand

(* in the middle of run_all_hands' loop *)
C19_Witness ==
    /\ pc = "run_all_hands"
    /\ sim.current_hand = 2
    /\ sim.current_hand < sim.num_hands
    /\ Len(sim.bet_history) = 2

(* C20: run_all_hands terminates from every reachable state: each pass of   *)
(* its loop plays exactly one round, it returns only with                   *)
(* current_hand = num_hands, and a call that has begun always returns, so   *)
(* it plays exactly num_hands - current_hand further rounds.                *)
C20_RunAllHandsTerminates ==
    /\ [][ LoopCall =>
              /\ sim.current_hand < sim.num_hands
              /\ sim'.current_hand = sim.current_hand + 1
              /\ OneAppended(sim.hand_results, sim'.hand_results) ]_vars
    /\ [][ (pc = "run_all_hands" /\ pc' = "idle") =>
              /\ sim.current_hand = sim.num_hands
              /\ sim' = sim ]_vars
    /\ (pc = "run_all_hands") ~> (pc = "idle" /\ sim.current_hand = sim.num_hands)

(* run_all_hands has returned from a run of at least three hands *)
C20_Witness ==
    /\ pc = "idle"
    /\ last_call = "run_all_hands"
    /\ ret = "None"
    /\ sim.current_hand = sim.num_hands
    /\ sim.num_hands >= 3

(* a step that is a call of get_statistics by the engine's caller *)
StatisticsCall == pc = "idle" /\ last_call' = "get_statistics"

(* C21: get_statistics is a pure observer: a call changes no field of the   *)
(* simulator, and a call that follows another with no step in between      *)
(* returns the same result.                                                 *)
C21_StatisticsIsObserver ==
    [][ StatisticsCall =>
            /\ sim' = sim
            /\ get_statistics(sim') = get_statistics(sim)
            /\ (last_call = "get_statistics" => ret' = ret) ]_vars

(* get_statistics called in the middle of a run that has seen a loss *)
C21_Witness ==
    /\ pc = "idle"
    /\ last_call = "get_statistics"
    /\ ret = "dict"
    /\ sim.current_hand = 2
    /\ sim.current_hand < sim.num_hands
    /\ sim.longest_loss_streak < 0

(* the largest and the smallest entry of a non-empty history *)
RECURSIVE HighestIn(_)
HighestIn(s) == IF Len(s) = 1 THEN s[1] ELSE GreatestOf(Head(s), HighestIn(Tail(s)))

RECURSIVE LowestIn(_)
LowestIn(s) == IF Len(s) = 1 THEN s[1] ELSE LeastOf(Head(s), LowestIn(Tail(s)))

(* C22 as stated: for every non-empty history the statistics' highest_profit *)
(* is the highest cumulative profit recorded in profit_history and their     *)
(* lowest_profit is the lowest one recorded there.                           *)
C22_Original_PeaksOfHistory ==
    Len(sim.profit_history) > 0 =>
        /\ get_statistics(sim).highest_profit = HighestIn(sim.profit_history)
        /\ get_statistics(sim).lowest_profit = LowestIn(sim.profit_history)

(* C22: for every non-empty history the statistics' highest_profit is the   *)
(* larger of 0 and the highest cumulative profit recorded in                *)
(* profit_history, and their lowest_profit is the smaller of 0 and the      *)
(* lowest one recorded there: the starting profit of 0 counts as a point.   *)
C22_PeaksOfHistoryAndStart ==
    Len(sim.profit_history) > 0 =>
        /\ get_statistics(sim).highest_profit
              = GreatestOf(0, HighestIn(sim.profit_history))
        /\ get_statistics(sim).lowest_profit
              = LeastOf(0, LowestIn(sim.profit_history))

(* two losses from the start: every recorded profit is negative, so the    *)
(* highest profit is the starting 0 and the lowest is the last entry        *)
C22_Witness ==
    /\ sim.hand_results = << -1, -1 >>
    /\ HighestIn(sim.profit_history) < 0
    /\ get_statistics(sim).highest_profit = 0
    /\ get_statistics(sim).lowest_profit = sim.profit_history[2]

(* C23: stopping after any round leaves a valid state: in every state with  *)
(* at least one completed round, the run not yet finished included, the     *)
(* statistics' final_profit is the last entry of profit_history.            *)
C23_FinalProfitIsLastEntry ==
    Len(sim.profit_history) >= 1 =>
        /\ get_statistics(sim).final_profit = Last(sim.profit_history)
        /\ sim.total_profit = Last(sim.profit_history)

(* a run left after two of its rounds, the second of which moved the profit *)
C23_Witness ==
    /\ pc = "idle"
    /\ sim.current_hand = 2
    /\ sim.current_hand < sim.num_hands
    /\ sim.profit_history[2] # sim.profit_history[1]
    /\ get_statistics(sim).final_profit = sim.profit_history[2]

(* s is an initial part of t *)
IsPrefix(s, t) == Len(s) <= Len(t) /\ SubSeq(t, 1, Len(s)) = s

(* C26: the histories of a simulator are append-only: each history before a *)
(* step is a prefix of the same history after it, so no call of             *)
(* run_single_hand, run_all_hands or get_statistics changes or removes an   *)
(* entry appended earlier.                                                  *)
C26_HistoryAppendOnly ==
    [][ /\ IsPrefix(sim.hand_results, sim'.hand_results)
        /\ IsPrefix(sim.profit_history, sim'.profit_history)
        /\ IsPrefix(sim.bet_history, sim'.bet_history)
        /\ IsPrefix(sim.expected_value_history, sim'.expected_value_history) ]_vars

(* a history of four different-looking rounds, read by get_statistics after *)
(* run_all_hands completed it                                               *)
C26_Witness ==
    /\ pc = "idle"
    /\ last_call = "get_statistics"
    /\ sim.current_hand = 4
    /\ sim.hand_results[1] # sim.hand_results[2]
    /\ sim.hand_results[3] # sim.hand_results[4]
    /\ sim.profit_history[1] # sim.profit_history[4]

(* C27: in a run under Martingale, for every pair of successive rounds i    *)
(* and i + 1: if round i is a Loss, the stake of round i + 1 is             *)
(* min(2 * stake_i, max_bet); if round i is a Win, it is                    *)
(* min(base_bet, max_bet); ties may lie anywhere in the run.                *)
C27_MartingaleInRun ==
    sim.strategy = "Martingale" =>
        \A i \in 1 .. (Len(sim.bet_history) - 1) :
            /\ sim.hand_results[i] = -1 =>
                  sim.bet_history[i + 1]
                    = LeastOf(sim.bet_history[i] + sim.bet_history[i], sim.max_bet)
            /\ sim.hand_results[i] = 1 =>
                  sim.bet_history[i + 1] = LeastOf(sim.base_bet, sim.max_bet)

(* a loss, a tie and a second loss: the stake doubles twice, the tie in     *)
(* between leaving it where it was                                          *)
C27_Witness ==
    /\ sim.strategy = "Martingale"
    /\ Len(sim.bet_history) = 4
    /\ SubSeq(sim.hand_results, 1, 3) = << -1, 0, -1 >>
    /\ sim.bet_history[3] = sim.bet_history[2]
    /\ sim.bet_history[4] = 4 * sim.base_bet

(* C28 as stated: under Paroli the bet is doubled after each consecutive    *)
(* win for up to 3 wins and then resets: with a win streak of 1 to 3 the    *)
(* stake is min(base_bet * 2^streak, max_bet), and once the win streak      *)
(* exceeds 3 the stake is back at min(base_bet, max_bet) (read here for    *)
(* positive bets with max_bet >= base_bet only).                            *)
C28_ParoliResetsAfterThreeWins ==
    (/\ bet_query.asked
     /\ bet_query.strategy = "Paroli"
     /\ bet_query.base_bet > 0
     /\ bet_query.max_bet >= bet_query.base_bet) =>
        /\ bet_query.current_streak \in 1 .. 3 =>
              bet_query.bet = LeastOf(Doubled(bet_query.base_bet,
                                              bet_query.current_streak),
                                      bet_query.max_bet)
        /\ bet_query.current_streak > 3 =>
              bet_query.bet = LeastOf(bet_query.base_bet, bet_query.max_bet)

(* C24 as stated: within one step the strategy is queried for the stake     *)
(* first, then the outcome is drawn, then the state is updated and the      *)
(* history record appended, and the round index is advanced last: the calls *)
(* a step has made so far are always an initial part of that order.         *)
C24_StakeThenDrawThenUpdate ==
    IsPrefix(frame.calls,
             << "get_bet_amount", "play_hand", "update_statistics", "current_hand" >>)

(* C25: the fast and the interactive mode are equivalent: for one           *)
(* configuration and one sequence of draws, calling run_single_hand in      *)
(* batches of any size until it returns False leaves the same simulator,    *)
(* histories included, as a single call of run_all_hands, and both have     *)
(* played all num_hands rounds.                                             *)
C25_FastEqualsInteractive ==
    modes.asked =>
        /\ sim = modes.fast
        /\ sim.hand_results = modes.fast.hand_results
        /\ sim.profit_history = modes.fast.profit_history
        /\ sim.bet_history = modes.fast.bet_history
        /\ sim.expected_value_history = modes.fast.expected_value_history
        /\ sim.current_hand = sim.num_hands
        /\ modes.fast.current_hand = modes.fast.num_hands

(* three hands under Martingale run in batches of two: the last batch is    *)
(* cut short by run_single_hand returning False                             *)
C25_Witness ==
    /\ modes.asked
    /\ modes.batch = 2
    /\ sim.num_hands = 3
    /\ sim.strategy = "Martingale"
    /\ sim.hand_results = << -1, 1, 0 >>
    /\ modes.fast.hand_results = << -1, 1, 0 >>

(* a step that is the user's press of Run Simulation *)
StartCall == pc = "idle" /\ last_call' = "start_simulation"

(* C29: start_simulation given num_hands <= 0, base_bet <= 0, max_bet <= 0  *)
(* or max_bet < base_bet reports an error, creates no simulator, executes   *)
(* no hand, and leaves self.simulator and is_running as they were before    *)
(* the call: the checks raise with nothing changed, and the except clause   *)
(* that follows shows the message and changes nothing else.                 *)
C29_InvalidStartChangesNothing ==
    /\ [][ (/\ StartCall
             /\ \/ gui'.read.num_hands <= 0
                \/ gui'.read.base_bet <= 0
                \/ gui'.read.max_bet <= 0
                \/ gui'.read.max_bet < gui'.read.base_bet) =>
                /\ pc' = "except"
                /\ sim' = sim
                /\ gui'.is_running = gui.is_running
                /\ gui'.hands_since_start = gui.hands_since_start ]_vars
    /\ [][ pc = "except" =>
                /\ pc' = "idle"
                /\ gui'.stats_text \in { "Error: Values must be positive",
                                         "Error: Max bet must be >= base bet" }
                /\ sim' = sim
                /\ gui'.is_running = gui.is_running
                /\ gui'.hands_since_start = gui.hands_since_start ]_vars

(* a start with max_bet < base_bet has been refused while the simulator of  *)
(* an earlier, completed run is still there                                 *)
C29_Witness ==
    /\ pc = "idle"
    /\ last_call = "start_simulation"
    /\ gui.stats_text = "Error: Max bet must be >= base bet"
    /\ sim # NoSimulator
    /\ sim.current_hand = sim.num_hands
    /\ Len(sim.hand_results) = sim.num_hands

(* C30: each accepted Start begins from a new simulator: right after        *)
(* start_simulation constructs it, the histories are empty and the profit,  *)
(* the streaks, the highest and lowest profit and the round index are 0;    *)
(* and after any sequence of Start, Stop, Reset and timer events the        *)
(* histories of the current simulator hold exactly the rounds played since  *)
(* the most recent accepted Start.                                          *)
C30_StartBeginsFresh ==
    /\ [][ (StartCall /\ pc' # "except") =>
              /\ sim'.num_hands = gui'.read.num_hands
              /\ sim'.base_bet = gui'.read.base_bet
              /\ sim'.max_bet = gui'.read.max_bet
              /\ sim'.hand_results = <<>>
              /\ sim'.profit_history = <<>>
              /\ sim'.bet_history = <<>>
              /\ sim'.expected_value_history = <<>>
              /\ sim'.total_profit = 0
              /\ sim'.current_win_streak = 0
              /\ sim'.current_loss_streak = 0
              /\ sim'.longest_win_streak = 0
              /\ sim'.longest_loss_streak = 0
              /\ sim'.highest_profit = 0
              /\ sim'.lowest_profit = 0
              /\ sim'.current_hand = 0 ]_vars
    /\ [](sim # NoSimulator =>
              /\ Len(sim.hand_results) = gui.hands_since_start
              /\ Len(sim.profit_history) = gui.hands_since_start
              /\ Len(sim.bet_history) = gui.hands_since_start
              /\ Len(sim.expected_value_history) = gui.hands_since_start)

(* a new animated run has just been started while the callback of an        *)
(* earlier, stopped run is still scheduled                                  *)
C30_Witness ==
    /\ pc = "run_simulation_step"
    /\ last_call = "start_simulation"
    /\ gui.pending > 0
    /\ gui.is_running
    /\ sim # NoSimulator
    /\ sim.current_hand = 0
    /\ sim.num_hands = 2

(* C31: the streaks exclude each other: in every reachable state            *)
(* current_win_streak >= 0, current_loss_streak <= 0 and at most one of     *)
(* them is not 0, so the signed streak handed to the strategy is the win    *)
(* streak when there is one, the loss streak when there is one, and 0       *)
(* otherwise.                                                               *)
C31_StreaksExclusive ==
    /\ sim.current_win_streak >= 0
    /\ sim.current_loss_streak <= 0
    /\ ~(sim.current_win_streak # 0 /\ sim.current_loss_streak # 0)
    /\ sim.current_win_streak # 0 => SignedStreak(sim) = sim.current_win_streak
    /\ sim.current_loss_streak # 0 => SignedStreak(sim) = sim.current_loss_streak
    /\ (sim.current_win_streak = 0 /\ sim.current_loss_streak = 0) =>
          SignedStreak(sim) = 0

(* two wins and then a loss: the loss has cleared the win streak *)
C31_Witness ==
    /\ sim.hand_results = << 1, 1, -1 >>
    /\ sim.current_win_streak = 0
    /\ sim.current_loss_streak = -1
    /\ sim.longest_win_streak = 2

(* the largest and the smallest of 0 and the entries of a history *)
RECURSIVE PeakWithStart(_)
PeakWithStart(s) ==
    IF s = <<>> THEN 0 ELSE GreatestOf(Head(s), PeakWithStart(Tail(s)))

RECURSIVE TroughWithStart(_)
TroughWithStart(s) ==
    IF s = <<>> THEN 0 ELSE LeastOf(Head(s), TroughWithStart(Tail(s)))

(* C32: the peak and the trough bracket the profit and zero: in every       *)
(* reachable state lowest_profit <= total_profit <= highest_profit and      *)
(* lowest_profit <= 0 <= highest_profit, where highest_profit is the        *)
(* largest and lowest_profit the smallest of 0 and the entries of           *)
(* profit_history.                                                          *)
C32_PeakTroughBracket ==
    /\ sim.lowest_profit <= sim.total_profit
    /\ sim.total_profit <= sim.highest_profit
    /\ sim.lowest_profit <= 0
    /\ 0 <= sim.highest_profit
    /\ sim.highest_profit = PeakWithStart(sim.profit_history)
    /\ sim.lowest_profit = TroughWithStart(sim.profit_history)

(* the profit has been both above and below 0 and now lies strictly between *)
(* its peak and its trough                                                  *)
C32_Witness ==
    /\ sim.lowest_profit < 0
    /\ 0 < sim.highest_profit
    /\ sim.lowest_profit < sim.total_profit
    /\ sim.total_profit < sim.highest_profit
    /\ Len(sim.profit_history) >= 3

(* the number of entries equal to v in s since the most recent entry equal  *)
(* to stop (in all of s when there is none)                                 *)
RECURSIVE CountSince(_, _, _)
CountSince(s, v, stop) ==
    IF s = <<>> THEN 0
    ELSE IF s[Len(s)] = stop THEN 0
    ELSE (IF s[Len(s)] = v THEN 1 ELSE 0)
            + CountSince(SubSeq(s, 1, Len(s) - 1), v, stop)

(* the largest CountSince over all prefixes of s *)
RECURSIVE LongestRun(_, _, _)
LongestRun(s, v, stop) ==
    IF s = <<>> THEN 0
    ELSE GreatestOf(CountSince(s, v, stop),
                    LongestRun(SubSeq(s, 1, Len(s) - 1), v, stop))

(* C33: the reported longest win streak is the largest, over all prefixes   *)
(* of the outcome history, of the number of Wins since the most recent Loss *)
(* (Ties do not interrupt the count); the reported longest loss streak is   *)
(* the largest number of Losses since the most recent Win; and neither      *)
(* value ever decreases during a run.                                       *)
C33_LongestStreaks ==
    /\ [](Len(sim.hand_results) > 0 =>
              /\ get_statistics(sim).longest_win_streak
                    = LongestRun(sim.hand_results, 1, -1)
              /\ get_statistics(sim).longest_loss_streak
                    = LongestRun(sim.hand_results, -1, 1))
    /\ [][ /\ sim'.longest_win_streak >= sim.longest_win_streak
            /\ 0 - sim'.longest_loss_streak >= 0 - sim.longest_loss_streak ]_vars

(* a loss, a tie, a loss and a win: the tie did not interrupt the two       *)
(* losses, and the win that followed left the longest loss streak at 2      *)
C33_Witness ==
    /\ sim.hand_results = << -1, 0, -1, 1 >>
    /\ get_statistics(sim).longest_loss_streak = 2
    /\ get_statistics(sim).longest_win_streak = 1
    /\ sim.current_loss_streak = 0

(* C34: the strategies are stateless: for each of the five strategies the   *)
(* stake depends on base_bet, current_streak and max_bet only: a call       *)
(* returns what any call with the same three arguments returns, whatever    *)
(* its total_profit and hand_number are.                                    *)
C34_StakeIgnoresProfitAndRound ==
    bet_query.asked =>
        \A total_profit \in QueryProfits, hand_number \in QueryHandNumbers :
            get_bet_amount(bet_query.strategy, bet_query.base_bet,
                           bet_query.current_streak, total_profit, hand_number,
                           bet_query.max_bet)
              = bet_query.bet

(* Martingale asked after two losses, late in a run that is in the red *)
C34_Witness ==
    /\ bet_query.asked
    /\ bet_query.strategy = "Martingale"
    /\ bet_query.current_streak = -2
    /\ bet_query.total_profit < 0
    /\ bet_query.hand_number > 0
    /\ bet_query.base_bet > 0
    /\ bet_query.bet = 4 * bet_query.base_bet

(* C35 as stated: the engine is driven by a single control loop: across any *)
(* sequence of Start, Stop, Reset and timer events at most one scheduled    *)
(* run_simulation_step callback is pending at any time.                     *)
C35_AtMostOnePendingCallback == gui.pending <= 1

(* the animated run that start_simulation began has come to its end: every *)
(* requested round is played, the run is no longer going and               *)
(* simulation_complete has been called exactly once                        *)
AnimatedRunComplete ==
    /\ sim # NoSimulator
    /\ gui.animate
    /\ sim.current_hand = sim.num_hands
    /\ ~gui.is_running
    /\ gui.completes = 1

(* C36: after an accepted Start in animated mode, unless Stop is pressed,  *)
(* the timer callbacks bring the simulator to current_hand = num_hands,    *)
(* after which is_running is False and simulation_complete has been called *)
(* once; in an animated run simulation_complete is never called a second   *)
(* time, and from the call on no callback is scheduled any more.           *)
C36_AnimatedRunCompletes ==
    /\ (pc = "run_simulation_step")
           ~> (AnimatedRunComplete \/ last_call = "stop_simulation")
    /\ []((sim # NoSimulator /\ gui.animate /\ gui.completes > 0)
              => AnimatedRunComplete)
    /\ [][(gui'.animate /\ gui'.completes = 1)
              => gui'.pending <= gui.pending]_vars

(* an animated run of MaxGuiHands rounds has completed, Stop never pressed *)
C36_Witness ==
    /\ AnimatedRunComplete
    /\ last_call = "run_simulation_step"
    /\ sim.num_hands = MaxGuiHands
    /\ gui.pending = 0
    /\ gui.start_button = "normal"
    /\ gui.stop_button = "disabled"

(* C37: the engine never plays more rounds than requested: for             *)
(* num_hands >= 1, whatever the order of the run_single_hand and           *)
(* run_all_hands calls, 0 <= current_hand <= num_hands in every state.     *)
C37_NeverMoreThanRequested ==
    /\ sim.num_hands >= 1
    /\ 0 <= sim.current_hand
    /\ sim.current_hand <= sim.num_hands

(* all MaxHands rounds are played and a further run_single_hand has been   *)
(* refused, the counter staying at num_hands                               *)
C37_Witness ==
    /\ sim.num_hands = MaxHands
    /\ sim.current_hand = sim.num_hands
    /\ Len(sim.hand_results) = sim.num_hands
    /\ pc = "idle"
    /\ last_call = "run_single_hand"
    /\ ret = "False"


====
